---- MODULE Spec2Model ----
(***************************************************************************)
(* Model of the CSV upload handler of go-lambda-csv (src/main.go).         *)
(*                                                                         *)
(* handleRequest walks the parts of a multipart body.  For every part      *)
(* named "file" it parses the CSV lines, creates a fresh WaitGroup and a   *)
(* fresh buffered channel used as a counting semaphore, and then, line by  *)
(* line, does wg.Add(1), sends a token into the channel and starts a       *)
(* goroutine running processRecord.  After the loop it waits on the        *)
(* WaitGroup.  processRecord builds the item, calls PutItem, and on its    *)
(* way out first receives from the channel and then calls wg.Done (the     *)
(* deferred calls run in reverse order of their registration).             *)
(*                                                                         *)
(* The channel capacity is the literal 500 in the source.  The model keeps *)
(* it in the variable capacity, fixed at start-up and drawn from           *)
(* 0..MaxCap, so that the blocking of the submitter can be explored with   *)
(* a handful of records.                                                   *)
(***************************************************************************)
EXTENDS Integers, Sequences, FiniteSets

\* Bounds of the exploration.
MaxRecords == 3
MaxCap == 2
MaxParts == 2

Tasks == 1..MaxRecords

Methods == {"POST", "GET"}

VARIABLES
    method,     \* request.HTTPMethod
    capacity,   \* cap(sem)
    hpc,        \* position of handleRequest
    status,     \* StatusCode of the response, 0 while none was returned
    partsRead,  \* parts handed out by reader.NextPart so far
    nlines,     \* len(lines) of the part being ingested
    idx,        \* lines of the part handed to a goroutine so far
    sem,        \* len(sem): tokens in the channel
    wg,         \* counter of the WaitGroup
    tpc,        \* position of each processRecord goroutine of the part
    tout,       \* what PutItem returned to each goroutine
    doneOrder,  \* goroutines of the part in the order of their wg.Done
    putCalls,   \* PutItem calls made while serving the request
    failLog,    \* "Error putting item" entries written to the log
    exited,     \* os.Exit(1) was called
    putErrs,    \* PutItem calls that returned an error to their goroutine
    nextId,     \* the value the next uuid.New() returns
    item,       \* ID of the item a goroutine has built and not yet handed to PutItem
    putIds,     \* IDs of the items PutItem was called with
    nput        \* PutItem calls made by each goroutine of the part

vars == <<method, capacity, hpc, status, partsRead, nlines, idx, sem, wg,
          tpc, tout, doneOrder, putCalls, failLog, exited,
          putErrs, nextId, item, putIds, nput>>

\* What the identifiers and the per-goroutine bookkeeping consist of.
idvars == <<nextId, item, putIds>>

hvars == <<hpc, status, partsRead, nlines, idx>>

TypeOK ==
    /\ method \in Methods
    /\ capacity \in 0..MaxCap
    /\ hpc \in {"start", "parts", "add", "acquire", "go", "wait", "joined", "responded"}
    /\ status \in {0, 200, 400, 405, 500}
    /\ partsRead \in 0..MaxParts
    /\ nlines \in 0..MaxRecords
    /\ idx \in 0..MaxRecords
    /\ sem \in 0..MaxCap
    /\ wg \in 0..MaxRecords
    /\ tpc \in [Tasks -> {"none", "ready", "built", "inPut", "logErr", "release", "wgDone", "done", "fatal"}]
    /\ tout \in [Tasks -> {"none", "ok", "err"}]
    /\ doneOrder \in Seq(Tasks)
    /\ putCalls \in Nat
    /\ failLog \in Nat
    /\ exited \in BOOLEAN
    /\ putErrs \in Nat
    /\ nextId \in Nat \ {0}
    /\ item \in [Tasks -> Nat]
    /\ putIds \subseteq Nat \ {0}
    /\ nput \in [Tasks -> Nat]

Init ==
    /\ method \in Methods
    /\ capacity \in 0..MaxCap
    /\ hpc = "start"
    /\ status = 0
    /\ partsRead = 0
    /\ nlines = 0
    /\ idx = 0
    /\ sem = 0
    /\ wg = 0
    /\ tpc = [i \in Tasks |-> "none"]
    /\ tout = [i \in Tasks |-> "none"]
    /\ doneOrder = <<>>
    /\ putCalls = 0
    /\ failLog = 0
    /\ exited = FALSE
    /\ putErrs = 0
    /\ nextId = 1
    /\ item = [i \in Tasks |-> 0]
    /\ putIds = {}
    /\ nput = [i \in Tasks |-> 0]

\* The process is alive: nothing runs after os.Exit.
Running == ~exited

\* return events.APIGatewayProxyResponse{StatusCode: code}
Respond(code) ==
    /\ hpc' = "responded"
    /\ status' = code

(***************************************************************************)
(* handleRequest                                                           *)
(***************************************************************************)

\* Mutation: the method is looked at but the return is missing.
MethodCheckFallsThrough ==
    /\ Running
    /\ hpc = "start"
    /\ hpc' = "parts"
    /\ status' = status
    /\ UNCHANGED <<method, capacity, partsRead, nlines, idx, sem, wg, tpc,
                   tout, doneOrder, putCalls, failLog, exited>>
    /\ UNCHANGED <<putErrs, idvars, nput>>

\* if request.HTTPMethod != http.MethodPost { return 405 }
MethodCheck ==
    /\ Running
    /\ hpc = "start"
    /\ IF method # "POST"
         THEN Respond(405)
         ELSE hpc' = "parts" /\ status' = status
    /\ UNCHANGED <<method, capacity, partsRead, nlines, idx, sem, wg, tpc,
                   tout, doneOrder, putCalls, failLog, exited>>
    /\ UNCHANGED <<putErrs, idvars, nput>>

\* The part loop is entered from the top or after the wg.Wait of a part.
AtNextPart == hpc \in {"parts", "joined"}

\* Mutation: at the end of the body the handler answers 500 when a PutItem
\* failure was logged.
NextPartEOFReportsFailures ==
    /\ Running
    /\ AtNextPart
    /\ IF failLog > 0 THEN Respond(500) ELSE Respond(200)
    /\ UNCHANGED <<method, capacity, partsRead, nlines, idx, sem, wg, tpc,
                   tout, doneOrder, putCalls, failLog, exited>>
    /\ UNCHANGED <<putErrs, idvars, nput>>

\* reader.NextPart() returns io.EOF: break, return 200.
NextPartEOF ==
    /\ Running
    /\ AtNextPart
    /\ Respond(200)
    /\ UNCHANGED <<method, capacity, partsRead, nlines, idx, sem, wg, tpc,
                   tout, doneOrder, putCalls, failLog, exited>>
    /\ UNCHANGED <<putErrs, idvars, nput>>

\* reader.NextPart() returns another error: return 500.
NextPartError ==
    /\ Running
    /\ AtNextPart
    /\ Respond(500)
    /\ UNCHANGED <<method, capacity, partsRead, nlines, idx, sem, wg, tpc,
                   tout, doneOrder, putCalls, failLog, exited>>
    /\ UNCHANGED <<putErrs, idvars, nput>>

\* A part whose form name is not "file" is skipped.
NextPartOther ==
    /\ Running
    /\ AtNextPart
    /\ partsRead < MaxParts
    /\ partsRead' = partsRead + 1
    /\ hpc' = "parts"
    /\ UNCHANGED <<method, capacity, status, nlines, idx, sem, wg, tpc,
                   tout, doneOrder, putCalls, failLog, exited>>
    /\ UNCHANGED <<putErrs, idvars, nput>>

\* A "file" part whose csvReader.ReadAll() fails: return 400.
NextPartBadCSV ==
    /\ Running
    /\ AtNextPart
    /\ partsRead < MaxParts
    /\ partsRead' = partsRead + 1
    /\ Respond(400)
    /\ UNCHANGED <<method, capacity, nlines, idx, sem, wg, tpc,
                   tout, doneOrder, putCalls, failLog, exited>>
    /\ UNCHANGED <<putErrs, idvars, nput>>

\* Mutation: the loop body runs once before the number of lines is looked at.
NextPartFileRunsOnce(n) ==
    /\ Running
    /\ AtNextPart
    /\ partsRead < MaxParts
    /\ partsRead' = partsRead + 1
    /\ nlines' = n
    /\ idx' = 0
    /\ sem' = 0
    /\ wg' = 0
    /\ tpc' = [i \in Tasks |-> "none"]
    /\ tout' = [i \in Tasks |-> "none"]
    /\ doneOrder' = <<>>
    /\ hpc' = "add"
    /\ UNCHANGED <<method, capacity, status, putCalls, failLog, exited>>
    /\ item' = [i \in Tasks |-> 0]
    /\ nput' = [i \in Tasks |-> 0]
    /\ UNCHANGED <<putErrs, nextId, putIds>>

\* A "file" part with n lines: var wg sync.WaitGroup; sem := make(chan
\* struct{}, 500); the range loop starts (or is skipped when n = 0).
NextPartFile(n) ==
    /\ Running
    /\ AtNextPart
    /\ partsRead < MaxParts
    /\ partsRead' = partsRead + 1
    /\ nlines' = n
    /\ idx' = 0
    /\ sem' = 0
    /\ wg' = 0
    /\ tpc' = [i \in Tasks |-> "none"]
    /\ tout' = [i \in Tasks |-> "none"]
    /\ doneOrder' = <<>>
    /\ hpc' = IF n = 0 THEN "wait" ELSE "add"
    /\ UNCHANGED <<method, capacity, status, putCalls, failLog, exited>>
    /\ item' = [i \in Tasks |-> 0]
    /\ nput' = [i \in Tasks |-> 0]
    /\ UNCHANGED <<putErrs, nextId, putIds>>

\* Mutation: wg.Add(1) is missing.
WgAddForgotten ==
    /\ Running
    /\ hpc = "add"
    /\ hpc' = "acquire"
    /\ UNCHANGED <<method, capacity, status, partsRead, nlines, idx, sem, wg,
                   tpc, tout, doneOrder, putCalls, failLog, exited>>
    /\ UNCHANGED <<putErrs, idvars, nput>>

\* wg.Add(1)
WgAdd ==
    /\ Running
    /\ hpc = "add"
    /\ wg' = wg + 1
    /\ hpc' = "acquire"
    /\ UNCHANGED <<method, capacity, status, partsRead, nlines, idx, sem,
                   tpc, tout, doneOrder, putCalls, failLog, exited>>
    /\ UNCHANGED <<putErrs, idvars, nput>>

\* Mutation: the buffer is taken to hold one more element than make gave it.
CanSendOneMore == sem <= capacity

\* Mutation: the send blocks while one slot of the buffer is still free.
CanSendOneLess == sem + 1 < capacity

\* A send on the channel can proceed while its buffer is not full.
CanSend == sem < capacity

\* sem <- struct{}{}
Acquire ==
    /\ Running
    /\ hpc = "acquire"
    /\ CanSend
    /\ sem' = sem + 1
    /\ hpc' = "go"
    /\ UNCHANGED <<method, capacity, status, partsRead, nlines, idx, wg,
                   tpc, tout, doneOrder, putCalls, failLog, exited>>
    /\ UNCHANGED <<putErrs, idvars, nput>>

\* Mutation: the loop walks the lines from the last to the first.
GoBackwards ==
    /\ Running
    /\ hpc = "go"
    /\ tpc' = [tpc EXCEPT ![nlines - idx] = "ready"]
    /\ idx' = idx + 1
    /\ hpc' = IF idx + 1 < nlines THEN "add" ELSE "wait"
    /\ UNCHANGED <<method, capacity, status, partsRead, nlines, sem, wg,
                   tout, doneOrder, putCalls, failLog, exited>>
    /\ UNCHANGED <<putErrs, idvars, nput>>

\* go processRecord(line, sem, &wg), then the next line or the end of the loop
Go ==
    /\ Running
    /\ hpc = "go"
    /\ tpc' = [tpc EXCEPT ![idx + 1] = "ready"]
    /\ idx' = idx + 1
    /\ hpc' = IF idx + 1 < nlines THEN "add" ELSE "wait"
    /\ UNCHANGED <<method, capacity, status, partsRead, nlines, sem, wg,
                   tout, doneOrder, putCalls, failLog, exited>>
    /\ UNCHANGED <<putErrs, idvars, nput>>

\* Mutation: the wait is left out, the handler goes on at once.
WaitSkipped == TRUE

\* wg.Wait() returns once the counter is zero.
WaitReleased == wg = 0

\* wg.Wait()
Wait ==
    /\ Running
    /\ hpc = "wait"
    /\ WaitReleased
    /\ hpc' = "joined"
    /\ UNCHANGED <<method, capacity, status, partsRead, nlines, idx, sem, wg,
                   tpc, tout, doneOrder, putCalls, failLog, exited>>
    /\ UNCHANGED <<putErrs, idvars, nput>>

(***************************************************************************)
(* processRecord, goroutine of line i                                      *)
(***************************************************************************)

\* Mutation: wg.Done() is called at the top of the function instead of
\* being deferred.
BuildItemAfterDone(i) ==
    /\ Running
    /\ tpc[i] = "ready"
    /\ tpc' = [tpc EXCEPT ![i] = "built"]
    /\ wg' = wg - 1
    /\ UNCHANGED <<method, capacity, hvars, sem, tout, doneOrder,
                   putCalls, failLog, exited>>
    /\ item' = [item EXCEPT ![i] = nextId]
    /\ nextId' = nextId + 1
    /\ UNCHANGED <<putErrs, putIds, nput>>

\* Mutation: the ID is taken from the position of the line in its part
\* instead of uuid.New().
BuildItemIdFromLine(i) ==
    /\ Running
    /\ tpc[i] = "ready"
    /\ tpc' = [tpc EXCEPT ![i] = "built"]
    /\ UNCHANGED <<method, capacity, hvars, sem, wg, tout, doneOrder,
                   putCalls, failLog, exited>>
    /\ item' = [item EXCEPT ![i] = i]
    /\ nextId' = nextId + 1
    /\ UNCHANGED <<putErrs, putIds, nput>>

\* uuid.New, Record{ID: id}, MarshalMap succeeds
BuildItem(i) ==
    /\ Running
    /\ tpc[i] = "ready"
    /\ tpc' = [tpc EXCEPT ![i] = "built"]
    /\ UNCHANGED <<method, capacity, hvars, sem, wg, tout, doneOrder,
                   putCalls, failLog, exited>>
    /\ item' = [item EXCEPT ![i] = nextId]
    /\ nextId' = nextId + 1
    /\ UNCHANGED <<putErrs, putIds, nput>>

\* Mutation: the error is printed but os.Exit(1) is missing; the goroutine
\* goes no further and the rest of the process lives on.
BuildItemFailsNoExit(i) ==
    /\ Running
    /\ tpc[i] = "ready"
    /\ tpc' = [tpc EXCEPT ![i] = "fatal"]
    /\ UNCHANGED <<method, capacity, hvars, sem, wg, tout, doneOrder,
                   putCalls, failLog, exited>>
    /\ nextId' = nextId + 1
    /\ UNCHANGED <<putErrs, item, putIds, nput>>

\* MarshalMap returns an error: os.Exit(1) ends the process, no deferred
\* call runs.
BuildItemFails(i) ==
    /\ Running
    /\ tpc[i] = "ready"
    /\ tpc' = [tpc EXCEPT ![i] = "fatal"]
    /\ exited' = TRUE
    /\ UNCHANGED <<method, capacity, hvars, sem, wg, tout, doneOrder,
                   putCalls, failLog>>
    /\ nextId' = nextId + 1
    /\ UNCHANGED <<putErrs, item, putIds, nput>>

\* svc.PutItem(input) is entered
PutItem(i) ==
    /\ Running
    /\ tpc[i] = "built"
    /\ tpc' = [tpc EXCEPT ![i] = "inPut"]
    /\ putCalls' = putCalls + 1
    /\ UNCHANGED <<method, capacity, hvars, sem, wg, tout, doneOrder,
                   failLog, exited>>
    /\ putIds' = putIds \cup {item[i]}
    /\ item' = [item EXCEPT ![i] = 0]
    /\ nput' = [nput EXCEPT ![i] = nput[i] + 1]
    /\ UNCHANGED <<putErrs, nextId>>

\* svc.PutItem returns nil: the function body ends
PutItemOk(i) ==
    /\ Running
    /\ tpc[i] = "inPut"
    /\ tout' = [tout EXCEPT ![i] = "ok"]
    /\ tpc' = [tpc EXCEPT ![i] = "release"]
    /\ UNCHANGED <<method, capacity, hvars, sem, wg, doneOrder, putCalls,
                   failLog, exited>>
    /\ UNCHANGED <<putErrs, idvars, nput>>

\* Mutation: a PutItem error is handled like a marshalling error, os.Exit(1).
PutItemErrExits(i) ==
    /\ Running
    /\ tpc[i] = "inPut"
    /\ tout' = [tout EXCEPT ![i] = "err"]
    /\ tpc' = [tpc EXCEPT ![i] = "fatal"]
    /\ exited' = TRUE
    /\ UNCHANGED <<method, capacity, hvars, sem, wg, doneOrder, putCalls,
                   failLog>>
    /\ putErrs' = putErrs + 1
    /\ UNCHANGED <<idvars, nput>>

\* svc.PutItem returns an error
PutItemErr(i) ==
    /\ Running
    /\ tpc[i] = "inPut"
    /\ tout' = [tout EXCEPT ![i] = "err"]
    /\ tpc' = [tpc EXCEPT ![i] = "logErr"]
    /\ UNCHANGED <<method, capacity, hvars, sem, wg, doneOrder, putCalls,
                   failLog, exited>>
    /\ putErrs' = putErrs + 1
    /\ UNCHANGED <<idvars, nput>>

\* Mutation: after the log entry the goroutine tries PutItem again.
LogPutErrorRetries(i) ==
    /\ Running
    /\ tpc[i] = "logErr"
    /\ failLog' = failLog + 1
    /\ tpc' = [tpc EXCEPT ![i] = "built"]
    /\ UNCHANGED <<method, capacity, hvars, sem, wg, tout, doneOrder,
                   putCalls, exited>>
    /\ item' = [item EXCEPT ![i] = nextId]
    /\ nextId' = nextId + 1
    /\ UNCHANGED <<putErrs, putIds, nput>>

\* Mutation: the error is returned without the log.Printf.
LogPutErrorSilent(i) ==
    /\ Running
    /\ tpc[i] = "logErr"
    /\ tpc' = [tpc EXCEPT ![i] = "release"]
    /\ UNCHANGED <<method, capacity, hvars, sem, wg, tout, doneOrder,
                   putCalls, failLog, exited>>
    /\ UNCHANGED <<putErrs, idvars, nput>>

\* Mutation: the receive from sem is not deferred but sits at the end of the
\* function, so the early return of the error path skips it.
LogPutErrorSkipsRelease(i) ==
    /\ Running
    /\ tpc[i] = "logErr"
    /\ failLog' = failLog + 1
    /\ tpc' = [tpc EXCEPT ![i] = "wgDone"]
    /\ UNCHANGED <<method, capacity, hvars, sem, wg, tout, doneOrder,
                   putCalls, exited>>
    /\ UNCHANGED <<putErrs, idvars, nput>>

\* log.Printf("Error putting item in DynamoDB: %v", err); return
LogPutError(i) ==
    /\ Running
    /\ tpc[i] = "logErr"
    /\ failLog' = failLog + 1
    /\ tpc' = [tpc EXCEPT ![i] = "release"]
    /\ UNCHANGED <<method, capacity, hvars, sem, wg, tout, doneOrder,
                   putCalls, exited>>
    /\ UNCHANGED <<putErrs, idvars, nput>>

\* A receive from the channel can proceed while its buffer is not empty.
CanReceive == sem > 0

\* Mutation: the deferred receive is missing, the token stays in the channel.
ReleaseLeaks(i) ==
    /\ Running
    /\ tpc[i] = "release"
    /\ tpc' = [tpc EXCEPT ![i] = "wgDone"]
    /\ UNCHANGED <<method, capacity, hvars, sem, wg, tout, doneOrder, putCalls,
                   failLog, exited>>
    /\ UNCHANGED <<putErrs, idvars, nput>>

\* defer func() { <-sem }()
Release(i) ==
    /\ Running
    /\ tpc[i] = "release"
    /\ CanReceive
    /\ sem' = sem - 1
    /\ tpc' = [tpc EXCEPT ![i] = "wgDone"]
    /\ UNCHANGED <<method, capacity, hvars, wg, tout, doneOrder, putCalls,
                   failLog, exited>>
    /\ UNCHANGED <<putErrs, idvars, nput>>

\* defer wg.Done()
WgDone(i) ==
    /\ Running
    /\ tpc[i] = "wgDone"
    /\ wg' = wg - 1
    /\ tpc' = [tpc EXCEPT ![i] = "done"]
    /\ doneOrder' = Append(doneOrder, i)
    /\ UNCHANGED <<method, capacity, hvars, sem, tout, putCalls, failLog,
                   exited>>
    /\ UNCHANGED <<putErrs, idvars, nput>>

Next ==
    \/ MethodCheck
    \/ NextPartEOF
    \/ NextPartError
    \/ NextPartOther
    \/ NextPartBadCSV
    \/ \E n \in 0..MaxRecords : NextPartFile(n)
    \/ WgAdd
    \/ Acquire
    \/ Go
    \/ Wait
    \/ \E i \in Tasks : BuildItem(i)
    \/ \E i \in Tasks : BuildItemFails(i)
    \/ \E i \in Tasks : PutItem(i)
    \/ \E i \in Tasks : PutItemOk(i)
    \/ \E i \in Tasks : PutItemErr(i)
    \/ \E i \in Tasks : LogPutError(i)
    \/ \E i \in Tasks : Release(i)
    \/ \E i \in Tasks : WgDone(i)

Spec == Init /\ [][Next]_vars

\* The Go scheduler runs every runnable goroutine eventually, and every call
\* into a collaborator (NextPart, MarshalMap, PutItem) returns.
Fairness ==
    /\ WF_vars(MethodCheck)
    /\ WF_vars(NextPartEOF \/ NextPartError \/ NextPartOther \/ NextPartBadCSV
                \/ \E n \in 0..MaxRecords : NextPartFile(n))
    /\ WF_vars(WgAdd)
    /\ WF_vars(Acquire)
    /\ WF_vars(Go)
    /\ WF_vars(Wait)
    /\ \A i \in Tasks :
        /\ WF_vars(BuildItem(i) \/ BuildItemFails(i))
        /\ WF_vars(PutItem(i))
        /\ WF_vars(PutItemOk(i) \/ PutItemErr(i))
        /\ WF_vars(LogPutError(i))
        /\ WF_vars(Release(i))
        /\ WF_vars(WgDone(i))

FairSpec == Spec /\ Fairness

(***************************************************************************)
(* Notions the properties are stated in                                    *)
(***************************************************************************)

\* The lines of the part being ingested.
Records == 1..nlines

\* Goroutine i was started by the go statement.
Dispatched(i) == tpc[i] # "none"

\* Goroutine i was started and has not yet received from sem: its token is
\* still in the channel.
HoldsToken(i) == tpc[i] \in {"ready", "built", "inPut", "logErr", "release", "fatal"}

Holders == {i \in Tasks : HoldsToken(i)}

\* Goroutine i is inside svc.PutItem.
InPut(i) == tpc[i] = "inPut"

\* Goroutine i has entered svc.PutItem at some point.
PutInvoked(i) == tpc[i] \in {"inPut", "logErr", "release", "wgDone", "done"}

\* Building the item failed in goroutine i.
BuildFailed(i) == tpc[i] = "fatal"

\* Goroutine i has run its deferred wg.Done: nothing of it is left to run.
Terminated(i) == tpc[i] = "done"

\* The goroutines of the part that have called wg.Done.
Completed == Len(doneOrder)

\* wg.Add(1) was called for the line whose goroutine is not yet started.
AddInHandOff == IF hpc \in {"acquire", "go"} THEN 1 ELSE 0

\* The token sent for the line whose goroutine is about to be started.
TokenInHandOff == IF hpc = "go" THEN 1 ELSE 0

\* handleRequest is between the creation of wg/sem and the return of wg.Wait.
Ingesting == hpc \in {"add", "acquire", "go", "wait"}

\* wg.Wait of the current part has returned.
PastJoin == hpc = "joined"

\* The send at line 117 cannot proceed.
BlockedOnAcquire == hpc = "acquire" /\ ~CanSend

\* The send cannot proceed and no goroutine is left that would receive.
BlockedForever == BlockedOnAcquire /\ Holders = {}

\* wg.Wait cannot return and no goroutine is left that would call wg.Done.
JoinBlockedForever ==
    /\ hpc = "wait"
    /\ ~WaitReleased
    /\ \A i \in Tasks : tpc[i] \in {"none", "done"}

(***************************************************************************)
(* C1: at most capacity goroutines hold a token                            *)
(***************************************************************************)

\* C1: in every reachable state the number of goroutines that were started
\* and have not yet released their token is at most the capacity of sem; the
\* goroutines inside PutItem are among them, so they too number at most the
\* capacity.
C1_AdmissionBound ==
    /\ Cardinality(Holders) <= capacity
    /\ Cardinality({i \in Tasks : InPut(i)}) <= capacity
    /\ {i \in Tasks : InPut(i)} \subseteq Holders

\* More lines than tokens, and as many goroutines inside PutItem as there
\* are tokens.
C1_Witness ==
    /\ capacity >= 1
    /\ nlines > capacity
    /\ Cardinality({i \in Tasks : InPut(i)}) = capacity

(***************************************************************************)
(* C2: the ingestion of a part ends                                        *)
(***************************************************************************)

\* C2 as stated: with a capacity of at least 1, under fair scheduling and
\* with every PutItem returning, an ingestion that has begun reaches the
\* return of wg.Wait, and there every one of the N goroutines has terminated.
C2_AlwaysReturns ==
    /\ (Ingesting /\ capacity >= 1) ~> PastJoin
    /\ [](PastJoin => Len(doneOrder) = nlines)

\* C2 as the code has it: the ingestion reaches the return of wg.Wait or the
\* process is ended by os.Exit(1) after a marshalling error; when wg.Wait
\* returns, the number of terminated goroutines is N.
C2_ReturnsOrExits ==
    /\ (Ingesting /\ capacity >= 1) ~> (PastJoin \/ exited)
    /\ [](PastJoin => Len(doneOrder) = nlines)
    /\ [](PastJoin => \A i \in Records : Terminated(i))

\* wg.Wait has returned for a part with more lines than tokens, one of whose
\* PutItem calls failed.
C2_Witness ==
    /\ PastJoin
    /\ capacity >= 1
    /\ nlines > capacity
    /\ Len(doneOrder) = nlines
    /\ \E i \in Records : tout[i] = "err"

(***************************************************************************)
(* C3: no early return                                                     *)
(***************************************************************************)

\* C3: whenever handleRequest is past the wg.Wait of a part (before the
\* next part is read, or after the response was returned), all N lines of
\* that part were handed to a goroutine and every one of these goroutines
\* has run to its end; no goroutine of the part is left running.
C3_NoEarlyReturn ==
    hpc \in {"joined", "responded"} =>
        /\ idx = nlines
        /\ \A i \in Records : Terminated(i)
        /\ \A i \in Tasks \ Records : ~Dispatched(i)
        /\ wg = 0

\* The join of a part of MaxRecords lines was passed.
C3_Witness ==
    /\ PastJoin
    /\ nlines = MaxRecords
    /\ \A i \in Records : Terminated(i)

(***************************************************************************)
(* C4: a PutItem error stays with its record                               *)
(***************************************************************************)

\* C4: the step in which PutItem returns an error to the goroutine of record
\* k changes nothing but that goroutine: it does not end the process and
\* leaves the submitter, the semaphore, the WaitGroup and every other
\* goroutine as they were.  While the process runs, the submitter is never
\* blocked for good after a failure, the failed goroutine can always give
\* its token back, and when wg.Wait returns every one of the N records was
\* handed to a goroutine that entered PutItem, whichever of them failed.
C4_FailureIsolated ==
    /\ [][\A k \in Tasks :
            (tout[k] # "err" /\ tout'[k] = "err") =>
                /\ exited' = exited
                /\ hvars' = hvars
                /\ sem' = sem
                /\ wg' = wg
                /\ \A j \in Tasks \ {k} : tpc'[j] = tpc[j] /\ tout'[j] = tout[j]]_vars
    /\ []((\E k \in Tasks : tout[k] = "err") /\ ~exited =>
            /\ ~BlockedForever
            /\ ~JoinBlockedForever
            /\ \A k \in Tasks : tpc[k] \in {"logErr", "release"} => CanReceive)
    /\ []((PastJoin /\ \E k \in Tasks : tout[k] = "err") =>
            \A i \in Records : Dispatched(i) /\ PutInvoked(i) /\ tout[i] # "none")

\* wg.Wait has returned for a part of MaxRecords lines: the PutItem of the
\* first record failed, the later records were put successfully.
C4_Witness ==
    /\ PastJoin
    /\ nlines = MaxRecords
    /\ tout[1] = "err"
    /\ \A i \in Records \ {1} : tout[i] = "ok"

(***************************************************************************)
(* C5: one token per goroutine, given back on every way out                *)
(***************************************************************************)

\* C5: the tokens in the channel are exactly those of the goroutines that
\* were started and have not yet run their deferred receive (plus the one
\* just sent for the goroutine about to be started); a goroutine inside
\* PutItem is among the holders; every goroutine that went past its deferred
\* receive, after a successful or a failed PutItem, gave back exactly one
\* token, so tokens sent = tokens held + goroutines that released; the
\* channel never holds fewer than 0 or more than its capacity.
C5_TokenAccounting ==
    /\ sem = Cardinality(Holders) + TokenInHandOff
    /\ Cardinality({i \in Tasks : InPut(i)}) <= sem
    /\ \A i \in Tasks : tpc[i] \in {"wgDone", "done"} => ~HoldsToken(i) /\ tout[i] \in {"ok", "err"}
    /\ idx + TokenInHandOff = sem + Cardinality({i \in Tasks : tpc[i] \in {"wgDone", "done"}})
    /\ sem >= 0
    /\ sem <= capacity

\* One goroutine ended after a failed PutItem and one after a successful
\* PutItem, while a third one still holds its token.
C5_Witness ==
    /\ \E i, j, k \in Records :
        /\ tout[i] = "err" /\ tpc[i] = "done"
        /\ tout[j] = "ok" /\ tpc[j] = "done"
        /\ HoldsToken(k)
    /\ sem = 1

(***************************************************************************)
(* C6: a failure to build the item ends the process                        *)
(***************************************************************************)

\* C6 as stated: when building the item fails for a record, PutItem is
\* never entered for a record that follows it in input order.
C6_NoPutAfterFailingRecord ==
    \A k \in Tasks : BuildFailed(k) =>
        \A j \in Tasks : j > k => ~PutInvoked(j)

\* C6 as the code has it: the item is built inside the goroutine, so when
\* it fails for record k the process ends at once by os.Exit(1): from then on
\* no step is taken at all, in particular PutItem is entered for no further
\* record and the handler returns no response; record k itself is never
\* put.  Records after k in input order that were started before the
\* failure may have entered PutItem already.
C6_ExitStopsEverything ==
    /\ [][(\E k \in Tasks : BuildFailed(k)) =>
            /\ putCalls' = putCalls
            /\ \A j \in Tasks : PutInvoked(j)' = PutInvoked(j)
            /\ vars' = vars]_vars
    /\ [](\A k \in Tasks : BuildFailed(k) =>
            exited /\ ~PutInvoked(k) /\ tout[k] = "none")
    /\ [](exited => (\E k \in Tasks : BuildFailed(k)) /\ hpc # "responded")

\* The process ended on the failure of the first record after the second
\* record had entered PutItem; the third record was started and is never
\* put.
C6_Witness ==
    /\ exited
    /\ BuildFailed(1)
    /\ PutInvoked(2)
    /\ tpc[3] = "ready"

(***************************************************************************)
(* C7: capacity 0                                                          *)
(***************************************************************************)

C8_CompletionCount ==
    /\ [][partsRead' = partsRead =>
            /\ Completed' \in {Completed, Completed + 1}
            /\ (Completed' = Completed + 1) <=>
                 (\E i \in Tasks : ~Terminated(i) /\ Terminated(i)')
            /\ Cardinality({i \in Tasks : ~Terminated(i) /\ Terminated(i)'}) <= 1
            /\ (Completed = nlines => Completed' = nlines)]_vars
    /\ [](Completed = Cardinality({i \in Tasks : Terminated(i)}))
    /\ [](Completed <= nlines)
    /\ [](wg = idx + AddInHandOff - Completed)
    /\ [](hpc = "wait" => (WaitReleased <=> Completed = nlines))
    /\ [](PastJoin => Completed = nlines)
    /\ [][(hpc = "wait" /\ hpc' = "joined") => Completed = nlines /\ Completed' = nlines]_vars

\* The join of a part of MaxRecords lines was passed; the goroutine of the
\* last line was the first to call wg.Done.
C8_Witness ==
    /\ PastJoin
    /\ nlines = MaxRecords
    /\ Completed = nlines
    /\ doneOrder[1] = nlines

(***************************************************************************)
(* C9: lines are handed over in input order                                *)
(***************************************************************************)

C10_BlocksOnlyWhenFull ==
    /\ BlockedOnAcquire => sem = capacity /\ Cardinality(Holders) = capacity
    /\ capacity >= nlines => ~BlockedOnAcquire

\* The submitter waits at the send with all tokens of a non-empty channel
\* held by running goroutines.
C10_Witness ==
    /\ BlockedOnAcquire
    /\ capacity >= 1
    /\ Cardinality(Holders) = capacity
    /\ idx < nlines

(***************************************************************************)
(* C11: a part without lines                                               *)
(***************************************************************************)

\* C11: while the part being ingested has no lines, no token is sent into
\* sem, wg.Add is not called, no goroutine is started and PutItem is not
\* entered; the handler goes from the parsing straight to wg.Wait, which
\* can return at once.
C11_EmptyPart ==
    /\ []((nlines = 0) =>
            /\ sem = 0
            /\ wg = 0
            /\ idx = 0
            /\ \A i \in Tasks : ~Dispatched(i) /\ nput[i] = 0
            /\ hpc \notin {"add", "acquire", "go"}
            /\ (hpc = "wait" => WaitReleased))
    /\ [][(nlines = 0 /\ nlines' = 0) => putCalls' = putCalls]_vars

\* wg.Wait has returned for a "file" part without lines; nothing was put.
C11_Witness ==
    /\ PastJoin
    /\ partsRead >= 1
    /\ nlines = 0
    /\ putCalls = 0

(***************************************************************************)
(* C12: one log entry per failed PutItem                                   *)
(***************************************************************************)

\* C12: the "Error putting item" entries in the log are the PutItem errors
\* returned so far minus those whose goroutine has not yet reached its
\* log.Printf; whenever wg.Wait has returned or the response was returned,
\* all goroutines of the part have terminated and the log holds exactly as
\* many failure entries as PutItem calls returned an error.
C12_FailureLog ==
    /\ failLog + Cardinality({i \in Tasks : tpc[i] = "logErr"}) = putErrs
    /\ failLog <= putErrs
    /\ putErrs <= putCalls
    /\ Cardinality({i \in Tasks : tout[i] = "err"}) <= putErrs
    /\ hpc \in {"joined", "responded"} =>
        /\ failLog = putErrs
        /\ \A i \in Records : Terminated(i)

\* wg.Wait has returned for the first "file" part, of MaxRecords lines, of
\* which exactly two PutItem calls failed; the log holds two failure entries.
C12_Witness ==
    /\ PastJoin
    /\ nlines = MaxRecords
    /\ Cardinality({i \in Records : tout[i] = "err"}) = 2
    /\ putCalls = nlines
    /\ failLog = 2

(***************************************************************************)
(* C13: a fresh ID for every item                                          *)
(***************************************************************************)

\* C13: given that uuid.New never returns a value twice, the IDs PutItem
\* was called with, over all lines of all parts, are pairwise different
\* (as many different IDs as calls), and an item built and not yet put
\* carries an ID that no other goroutine holds and that was not put before.
C13_FreshIds ==
    /\ Cardinality(putIds) = putCalls
    /\ \A i \in Tasks : item[i] # 0 => item[i] \notin putIds /\ item[i] < nextId
    /\ \A i, j \in Tasks : (i # j /\ item[i] # 0) => item[i] # item[j]
    /\ \A x \in putIds : x < nextId
    /\ \A i \in Tasks : (tpc[i] = "built") <=> (item[i] # 0)

\* The first line of a second "file" part is put after the first line of
\* an earlier part was put: the same position, two different IDs.
C13_Witness ==
    /\ partsRead = 2
    /\ PutInvoked(1)
    /\ putCalls >= 2
    /\ Cardinality(putIds) = putCalls
    /\ putCalls > Cardinality({i \in Tasks : PutInvoked(i)})

(***************************************************************************)
(* C14: the causal order within one record                                 *)
(***************************************************************************)

\* C14: a goroutine is started only when the token for its line has been
\* sent into sem and wg.Add was called for it; a token leaves sem only in a
\* step of a goroutine whose PutItem attempt has ended (returned nil, or
\* returned an error that was logged); the WaitGroup counter goes down only
\* in a step of a goroutine whose PutItem attempt has ended and whose token
\* was given back.
C14_CausalOrder ==
    /\ [][\A i \in Tasks :
            (~Dispatched(i) /\ Dispatched(i)') =>
                /\ hpc = "go"
                /\ TokenInHandOff = 1
                /\ sem >= 1
                /\ wg >= 1
                /\ sem' = sem]_vars
    /\ [][(sem' < sem /\ partsRead' = partsRead) =>
            \E i \in Tasks :
                /\ tpc[i] = "release"
                /\ tout[i] \in {"ok", "err"}
                /\ nput[i] = 1
                /\ tpc'[i] = "wgDone"
                /\ sem' = sem - 1
                /\ wg' = wg]_vars
    /\ [][(wg' < wg /\ partsRead' = partsRead) =>
            \E i \in Tasks :
                /\ tpc[i] = "wgDone"
                /\ tout[i] \in {"ok", "err"}
                /\ ~HoldsToken(i)
                /\ tpc'[i] = "done"
                /\ wg' = wg - 1
                /\ sem' = sem]_vars
    /\ [](\A i \in Tasks : tpc[i] \in {"wgDone", "done"} => tout[i] # "none")

\* The goroutine of a part of one line has given its token back after a
\* successful PutItem and has not yet called wg.Done.
C14_Witness ==
    /\ nlines = 1
    /\ tpc[1] = "wgDone"
    /\ tout[1] = "ok"
    /\ sem = 0
    /\ wg = 1

(***************************************************************************)
(* C15: PutItem once per record                                            *)
(***************************************************************************)

\* C15: no goroutine enters PutItem more than once, and it has entered it
\* exactly once as soon as it is in or past the call, also when the call
\* returned an error; only the goroutines of the lines of the part enter
\* it; when wg.Wait has returned (so building the item failed for no
\* record), PutItem was entered exactly once for each of the N lines, N
\* calls in all for the part; each entry adds one to the calls of the
\* request.
C15_PutOncePerRecord ==
    /\ [](\A i \in Tasks : nput[i] <= 1)
    /\ [](\A i \in Tasks : PutInvoked(i) <=> nput[i] = 1)
    /\ [](\A i \in Tasks : nput[i] = 1 => i \in Records)
    /\ [](\A i \in Tasks : tout[i] = "err" => nput[i] = 1)
    /\ [](PastJoin =>
            /\ \A i \in Records : nput[i] = 1
            /\ Cardinality({i \in Tasks : nput[i] = 1}) = nlines)
    /\ [][\A i \in Tasks : nput'[i] = nput[i] + 1 => putCalls' = putCalls + 1]_vars
    /\ [][partsRead' = partsRead =>
            putCalls' - putCalls = Cardinality({i \in Tasks : nput'[i] # nput[i]})]_vars

\* wg.Wait has returned for a part of MaxRecords lines all of whose PutItem
\* calls failed; each line was put once.
C15_Witness ==
    /\ PastJoin
    /\ nlines = MaxRecords
    /\ \A i \in Records : tout[i] = "err" /\ nput[i] = 1
    /\ putCalls = nlines

(***************************************************************************)
(* C16: a read failure and the writes before it                            *)
(***************************************************************************)

\* C16: whenever handleRequest has returned status 500 (reading the next
\* part failed) or 400 (reading the CSV failed), no goroutine was started
\* and PutItem was not entered for the request.
C16_ParseErrorBeforeAnyWrite ==
    status \in {400, 500} =>
        /\ putCalls = 0
        /\ \A i \in Tasks : ~Dispatched(i)

(***************************************************************************)
(* C17: the response after the ingestion                                   *)
(***************************************************************************)

\* C17: once wg.Wait has returned, the handler can end with status 200
\* whatever the log holds, also when every PutItem of the part failed; and
\* whenever status 200 was returned, the handler has returned and no
\* goroutine is left running: every line of the last part has a terminated
\* goroutine and the WaitGroup counter is zero.
C17_SuccessWhateverFailed ==
    /\ (PastJoin /\ ~exited) => ENABLED (NextPartEOF /\ status' = 200)
    /\ status = 200 =>
        /\ hpc = "responded"
        /\ idx = nlines
        /\ wg = 0
        /\ \A i \in Records : Terminated(i)
        /\ \A i \in Tasks : tpc[i] \in {"none", "done"}

\* Status 200 was returned for a request whose last part had MaxRecords
\* lines, every one of which failed in PutItem.
C17_Witness ==
    /\ status = 200
    /\ nlines = MaxRecords
    /\ \A i \in Records : tout[i] = "err"
    /\ failLog >= nlines

(***************************************************************************)
(* C18: the channel is empty when the join is passed                       *)
(***************************************************************************)

\* C18: the tokens in sem are the tokens sent (one per started goroutine,
\* plus the one in hand-off) minus the goroutines that ran their deferred
\* receive; a goroutine receives from sem before it calls wg.Done, so the
\* channel never holds more tokens than the WaitGroup counts goroutines;
\* hence when wg.Wait has returned, and when status 200 was returned, sem
\* is empty and no goroutine holds a token.
C18_PoolEmptyAtReturn ==
    /\ sem = (idx + TokenInHandOff)
               - Cardinality({i \in Tasks : Dispatched(i) /\ ~HoldsToken(i)})
    /\ sem <= wg
    /\ (PastJoin \/ status = 200) => (sem = 0 /\ Holders = {})

\* wg.Wait has returned for a part with more lines than tokens, all put
\* successfully, and the channel is empty.
C18_Witness ==
    /\ PastJoin
    /\ capacity >= 1
    /\ nlines > capacity
    /\ \A i \in Records : tout[i] = "ok"
    /\ sem = 0

(***************************************************************************)
(* C19: the parts of a body are ingested one after the other               *)
(***************************************************************************)

\* C19: the handler reads the next part only when no goroutine of an
\* earlier part is left running, the channel of that part is empty and its
\* WaitGroup counter is zero; so the goroutines holding a token at any
\* moment all belong to one part and number at most the capacity.
C19_PartsDoNotOverlap ==
    /\ [][partsRead' # partsRead =>
            /\ \A i \in Tasks : tpc[i] \in {"none", "done"}
            /\ Holders = {}
            /\ sem = 0
            /\ wg = 0]_vars
    /\ [](AtNextPart => \A i \in Tasks : tpc[i] \in {"none", "done"})
    /\ [](Cardinality(Holders) <= capacity /\ sem <= capacity)
    /\ [](\A i \in Tasks : HoldsToken(i) => i \in Records)

\* A goroutine of the second part holds a token after PutItem was entered
\* for lines of the first part.
C19_Witness ==
    /\ partsRead = 2
    /\ HoldsToken(1)
    /\ putCalls > Cardinality({i \in Tasks : PutInvoked(i)})

(***************************************************************************)
(* C20: a method other than POST                                           *)
(***************************************************************************)

\* C20: for a request whose method is not POST the handler reads no part,
\* sends no token, starts no goroutine, builds no item and never enters
\* PutItem; the only response it returns is status 405, and status 405 is
\* returned for no POST request.
C20_MethodNotAllowed ==
    /\ method # "POST" =>
        /\ hpc \in {"start", "responded"}
        /\ (hpc = "responded" <=> status = 405)
        /\ status \in {0, 405}
        /\ partsRead = 0
        /\ sem = 0
        /\ wg = 0
        /\ \A i \in Tasks : ~Dispatched(i) /\ nput[i] = 0
        /\ putCalls = 0
        /\ nextId = 1
        /\ ~exited
    /\ status = 405 => method # "POST"

\* Status 405 was returned for a GET request.
C20_Witness ==
    /\ method = "GET"
    /\ hpc = "responded"
    /\ status = 405

====
